---- MODULE Spec2Model ----
(***************************************************************************)
(* Model of the two crates of the repository.                              *)
(*                                                                         *)
(*  otel_posix_pseudo_propegator/src/lib.rs : the pthread_create shim      *)
(*     (REAL_CREATE, real_pthread_create, Launch, trampoline,              *)
(*     pthread_create), run by several threads, one atomic step of the     *)
(*     code per action.                                                    *)
(*  quasi_arc/src/lib.rs : QuasiArc (new, clone, deref, drop, try_cancel,  *)
(*     cancel) on the handles of one allocation.                           *)
(*                                                                         *)
(* The two state machines share no state; each has its own specification   *)
(* (Spec for the shim, SpecQA for QuasiArc). SpecFair is Spec with the      *)
(* platform scheduling every thread it created; SpecBind is the shim built  *)
(* with either binding of the original function. The println! lines of the *)
(* shim write to the console only and are left out.                        *)
(***************************************************************************)
EXTENDS Integers, Sequences, FiniteSets, TLC

(* ------------------------------ bounds -------------------------------- *)

\* threads that exist when the process starts (the application's creators)
NumRoots == 2
\* thread slots the platform can still hand out (beyond it: EAGAIN)
MaxSpawned == 2
\* intercepted pthread_create calls in one run
MaxCalls == 2

Threads == 1..(NumRoots + MaxSpawned)
Roots == 1..NumRoots
CallIds == 1..MaxCalls

(* --------------------------- the environment -------------------------- *)

\* opentelemetry::Context values a thread can have as its current context:
\* the default empty one, one that carries values but no span, and two that
\* carry a (distinct) active span.
Contexts == {"none", "baggage", "spanA", "spanB"}
ActiveSpans == {"spanA", "spanB"}

\* start routines and arguments callers pass, attributes, tid output slots
Fns == {"f", "g"}
Args == {1, 2}
Attrs == {"null", "attr"}
TidSlots == {"tidA", "tidB"}

\* the argument lists callers pass to pthread_create: two that differ in
\* every position
CallInputs ==
    { [start_routine |-> "f", arg |-> 1, tid |-> "tidA", attr |-> "null"],
      [start_routine |-> "g", arg |-> 2, tid |-> "tidB", attr |-> "attr"] }

\* return codes of the platform's pthread_create: 0 and EAGAIN
RetCodes == {0, 11}

\* what a start routine returns for an argument (distinct per routine and
\* argument, so that a wrong routine or argument shows in the result)
Apply(fn, a) == IF fn = "f" THEN a ELSE a + 2

\* a *mut c_void: either the caller's argument or a leaked Box<Launch>
UserArg(a) == [kind |-> "user", v |-> a]
LaunchPtr(k) == [kind |-> "launch", v |-> k]

VARIABLES
    symPresent,   \* does dlsym(RTLD_NEXT, "pthread_create") find the symbol
    aborted,      \* the process has aborted
    once,         \* state of the Once inside REAL_CREATE
    REAL_CREATE,  \* value stored in the OnceLock
    lookups,      \* how many times the init closure (the dlsym lookup) ran
    cur,          \* cur[t]: the thread-local current Context of thread t
    th,           \* th[t]: control state of thread t
    ncalls,       \* intercepted calls started so far
    call,         \* call[k]: arguments, path and result of the k-th call
    launch,       \* launch[k]: the Launch allocation of the k-th call
    mem           \* mem[slot]: content of a pthread_t output slot

\* How the build binds the original function: "dlsym" looks it up at first
\* use (real_pthread_create), "wrap" has the linker route the calls to the
\* entry point and expose the original as __real_pthread_create.
VARIABLE binding
Bindings == {"dlsym", "wrap"}

ShimVars == <<symPresent, aborted, once, REAL_CREATE, lookups, cur, th,
              ncalls, call, launch, mem>>

NoThread == [st |-> "unborn", pc |-> "none", k |-> 0, entry |-> "none",
             arg |-> UserArg(0), fn |-> "none", farg |-> 0, guard |-> "noguard",
             result |-> 0, born |-> 0]
NoCall == [by |-> 0, start_routine |-> "none", arg |-> 0, tid |-> "none",
           attr |-> "null", cx |-> "none", path |-> "none", got |-> "unset",
           ucalls |-> <<>>, ret |-> -1, child |-> 0]
NoLaunch == [st |-> "none", real_fn |-> "none", real_arg |-> 0, ctx |-> "none",
             owner |-> 0, frees |-> 0, freedBy |-> 0]

ShimInit ==
    /\ symPresent \in BOOLEAN
    /\ aborted = FALSE
    /\ once = "incomplete"
    /\ REAL_CREATE = "unset"
    /\ lookups = 0
    /\ cur = [t \in Threads |-> "none"]
    /\ th = [t \in Threads |->
               IF t \in Roots THEN [NoThread EXCEPT !.st = "root"] ELSE NoThread]
    /\ ncalls = 0
    /\ call = [k \in CallIds |-> NoCall]
    /\ launch = [k \in CallIds |-> NoLaunch]
    /\ mem = [s \in TidSlots |-> 0]

(* ------------------------- the context library ------------------------ *)

\* Context::current() on thread t
Context_current(t) == cur[t]

\* faulty variant: any context other than the default one counts as active
has_active_span_present(cx) == cx # "none"

\* Context::has_active_span
has_active_span(cx) == cx \in ActiveSpans

\* the application attaches another context on one of its own threads
set_context(t, c) ==
    /\ ~aborted
    /\ th[t].st = "root"
    /\ th[t].pc = "none"
    /\ cur[t] # c
    /\ cur' = [cur EXCEPT ![t] = c]
    /\ UNCHANGED <<symPresent, aborted, once, REAL_CREATE, lookups, th, ncalls,
                   call, launch, mem>>

(* ----------------------------- pthread_create ------------------------- *)

\* faulty variant: the argument is left out of the package
Box_new_Launch_noarg(t, start_routine, arg, cx) ==
    [NoLaunch EXCEPT !.st = "boxed", !.real_fn = start_routine,
                     !.ctx = cx, !.owner = t]

\* Box::new(Launch { real_fn: start_routine, real_arg: arg, ctx: cx })
Box_new_Launch(t, start_routine, arg, cx) ==
    [NoLaunch EXCEPT !.st = "boxed", !.real_fn = start_routine,
                     !.real_arg = arg, !.ctx = cx, !.owner = t]

\* Entry of the intercepted call up to the evaluation of real_pthread_create():
\* capture the context, take the fast path if it has no active span,
\* otherwise box the Launch.
pthread_create_enter(t, start_routine, arg, tid, attr) ==
    /\ ~aborted
    /\ th[t].st \in {"root", "in_fn"}
    /\ th[t].pc = "none"
    /\ ncalls < MaxCalls
    /\ LET k == ncalls + 1
           cx == Context_current(t)
           slow == has_active_span(cx)
       IN /\ ncalls' = k
          /\ call' = [call EXCEPT ![k] =
                        [NoCall EXCEPT !.by = t, !.start_routine = start_routine,
                                       !.arg = arg, !.tid = tid, !.attr = attr,
                                       !.cx = cur[t],
                                       !.path = IF slow THEN "slow" ELSE "fast"]]
          /\ launch' = IF slow
                       THEN [launch EXCEPT ![k] =
                               Box_new_Launch(t, start_routine, arg, cx)]
                       ELSE launch
          /\ th' = [th EXCEPT ![t].pc = "get_or_init", ![t].k = k]
    /\ UNCHANGED <<symPresent, aborted, once, REAL_CREATE, lookups, cur, mem>>

(* --------------------------- real_pthread_create ---------------------- *)

\* faulty variant: the lookup starts at the head of the load order
\* (RTLD_DEFAULT) and finds the interposed entry point itself
dlsym_default == IF symPresent THEN "shim_pthread_create" ELSE "null"

\* libc::dlsym(RTLD_NEXT, "pthread_create"): the next definition of the
\* symbol in load order, or null
dlsym == IF symPresent THEN "libc_pthread_create" ELSE "null"

\* faulty variant: no exclusion between initialisers: a caller that finds the cell
\* not yet initialised runs the closure itself, also while another one does
get_or_init_racy(t) ==
    /\ ~aborted
    /\ th[t].pc = "get_or_init"
    /\ \/ /\ once = "complete"
          /\ call' = [call EXCEPT ![th[t].k].got = REAL_CREATE]
          /\ th' = [th EXCEPT ![t].pc = "invoke"]
          /\ UNCHANGED once
       \/ /\ once # "complete"
          /\ once' = "running"
          /\ th' = [th EXCEPT ![t].pc = "closure"]
          /\ UNCHANGED call
    /\ UNCHANGED <<symPresent, aborted, REAL_CREATE, lookups, cur, ncalls,
                   launch, mem>>

\* REAL_CREATE.get_or_init(..), the part outside the closure: an initialised
\* cell is read; on an uninitialised one the caller becomes the initialiser;
\* while another thread initialises, the caller waits (the action is disabled).
get_or_init(t) ==
    /\ ~aborted
    /\ th[t].pc = "get_or_init"
    /\ \/ /\ once = "complete"
          /\ call' = [call EXCEPT ![th[t].k].got = REAL_CREATE]
          /\ th' = [th EXCEPT ![t].pc = "invoke"]
          /\ UNCHANGED once
       \/ /\ once = "incomplete"
          /\ once' = "running"
          /\ th' = [th EXCEPT ![t].pc = "closure"]
          /\ UNCHANGED call
    /\ UNCHANGED <<symPresent, aborted, REAL_CREATE, lookups, cur, ncalls,
                   launch, mem>>

\* faulty variant: no null check: whatever dlsym gave is stored and returned
closure_nocheck(t) ==
    /\ ~aborted
    /\ th[t].pc = "closure"
    /\ lookups' = lookups + 1
    /\ REAL_CREATE' = dlsym
    /\ once' = "complete"
    /\ call' = [call EXCEPT ![th[t].k].got = dlsym]
    /\ th' = [th EXCEPT ![t].pc = "invoke"]
    /\ UNCHANGED <<symPresent, aborted, cur, ncalls, launch, mem>>

\* The init closure. A found symbol is stored and returned. A null symbol
\* panics: OnceLock leaves the cell uninitialised when its closure panics
\* (the unwinding releases the Once and wakes the waiters), and the panic
\* goes on to the caller.
closure(t) ==
    /\ ~aborted
    /\ th[t].pc = "closure"
    /\ lookups' = lookups + 1
    /\ IF dlsym = "null"
       THEN /\ once' = "incomplete"
            /\ th' = [th EXCEPT ![t].pc = "panic"]
            /\ UNCHANGED <<REAL_CREATE, call>>
       ELSE /\ REAL_CREATE' = dlsym
            /\ once' = "complete"
            /\ call' = [call EXCEPT ![th[t].k].got = dlsym]
            /\ th' = [th EXCEPT ![t].pc = "invoke"]
    /\ UNCHANGED <<symPresent, aborted, cur, ncalls, launch, mem>>

\* Link-time binding: the alias __real_pthread_create is the original
\* function, fixed by the linker; there is no lookup and no cell.
wrap_real_pthread_create(t) ==
    /\ ~aborted
    /\ th[t].pc = "get_or_init"
    /\ call' = [call EXCEPT ![th[t].k].got = "libc_pthread_create"]
    /\ th' = [th EXCEPT ![t].pc = "invoke"]
    /\ UNCHANGED <<symPresent, aborted, once, REAL_CREATE, lookups, cur, ncalls,
                   launch, mem>>

\* The panic reaches the frame of pthread_create, an extern "C" function: a
\* panic cannot unwind out of it, the process aborts.
abort_on_unwind(t) ==
    /\ ~aborted
    /\ th[t].pc = "panic"
    /\ aborted' = TRUE
    /\ UNCHANGED <<symPresent, once, REAL_CREATE, lookups, cur, th, ncalls,
                   call, launch, mem>>

(* ------------------- the call of the resolved function ---------------- *)

\* faulty variant: the slow path creates the thread with default attributes
CreateArgs_noattr(k) ==
    IF call[k].path = "fast"
    THEN [tid |-> call[k].tid, attr |-> call[k].attr,
          entry |-> call[k].start_routine, arg |-> UserArg(call[k].arg)]
    ELSE [tid |-> call[k].tid, attr |-> "null",
          entry |-> "trampoline", arg |-> LaunchPtr(k)]

\* What pthread_create passes to the resolved function: on the fast path the
\* caller's own four arguments, on the slow path tid, attr, the trampoline
\* and Box::into_raw(launch).
CreateArgs(k) ==
    IF call[k].path = "fast"
    THEN [tid |-> call[k].tid, attr |-> call[k].attr,
          entry |-> call[k].start_routine, arg |-> UserArg(call[k].arg)]
    ELSE [tid |-> call[k].tid, attr |-> call[k].attr,
          entry |-> "trampoline", arg |-> LaunchPtr(k)]

\* the first thread slot the platform has left, 0 when there is none
FreeSlot ==
    IF \E n \in Threads : th[n].st = "unborn"
    THEN CHOOSE n \in Threads :
            /\ th[n].st = "unborn"
            /\ \A m \in Threads : th[m].st = "unborn" => n <= m
    ELSE 0

\* real_pthread_create()(tid, attr, entry, arg), and the return of its code.
\* The platform answers rc; with 0 a new thread exists, its handle is in the
\* tid slot, and it will run entry(arg). On the slow path into_raw gives the
\* Launch up: a created thread holds it from now on, nobody does otherwise.
invoke(t, rc) ==
    /\ ~aborted
    /\ th[t].pc = "invoke"
    /\ rc = 0 => FreeSlot # 0
    /\ LET k == th[t].k
           a == CreateArgs(k)
           n == IF rc = 0 THEN FreeSlot ELSE 0
           ucall == [fn |-> call[k].got, tid |-> a.tid, attr |-> a.attr,
                     entry |-> a.entry, arg |-> a.arg, rc |-> rc]
       IN /\ call' = [call EXCEPT ![k].ucalls = Append(@, ucall),
                                  ![k].ret = rc,
                                  ![k].child = n]
          /\ launch' = IF call[k].path = "slow"
                       THEN [launch EXCEPT ![k].st = "raw", ![k].owner = n]
                       ELSE launch
          /\ th' = IF rc = 0
                   THEN [th EXCEPT ![t].pc = "none", ![t].k = 0,
                                   ![n] = [NoThread EXCEPT !.st = "start",
                                                           !.entry = a.entry,
                                                           !.arg = a.arg,
                                                           !.born = k]]
                   ELSE [th EXCEPT ![t].pc = "none", ![t].k = 0]
          /\ mem' = IF rc = 0 THEN [mem EXCEPT ![a.tid] = n] ELSE mem
    /\ UNCHANGED <<symPresent, aborted, once, REAL_CREATE, lookups, cur, ncalls>>

(* ------------------------------ the new thread ------------------------ *)

\* faulty variant: the package is handed over through one shared slot
LaunchOf_shared(v) == 1

\* the Launch a raw pointer points to: Box::from_raw(v as *mut Launch)
LaunchOf(v) == v.v

\* faulty variant: the captured context is read but never attached
trampoline_enter_noattach(n) ==
    /\ ~aborted
    /\ th[n].st = "start"
    /\ th[n].entry = "trampoline"
    /\ LET k == LaunchOf(th[n].arg)
       IN /\ launch' = [launch EXCEPT ![k].st = "boxed", ![k].owner = n]
          /\ th' = [th EXCEPT ![n].st = "in_fn",
                              ![n].guard = cur[n],
                              ![n].fn = launch[k].real_fn,
                              ![n].farg = launch[k].real_arg]
    /\ UNCHANGED <<symPresent, aborted, once, REAL_CREATE, lookups, cur, ncalls,
                   call, mem>>

\* faulty variant: the trampoline attaches what its creator has current when
\* the new thread starts, not what the Launch holds
trampoline_enter_live(n) ==
    /\ ~aborted
    /\ th[n].st = "start"
    /\ th[n].entry = "trampoline"
    /\ LET k == LaunchOf(th[n].arg)
       IN /\ launch' = [launch EXCEPT ![k].st = "boxed", ![k].owner = n]
          /\ cur' = [cur EXCEPT ![n] = cur[call[k].by]]
          /\ th' = [th EXCEPT ![n].st = "in_fn",
                              ![n].guard = cur[n],
                              ![n].fn = launch[k].real_fn,
                              ![n].farg = launch[k].real_arg]
    /\ UNCHANGED <<symPresent, aborted, once, REAL_CREATE, lookups, ncalls,
                   call, mem>>

\* trampoline, up to the call of the original start routine: take the Box
\* back from the raw pointer, attach the captured context (the guard keeps
\* the context that was current before), read real_fn and real_arg.
trampoline_enter(n) ==
    /\ ~aborted
    /\ th[n].st = "start"
    /\ th[n].entry = "trampoline"
    /\ LET k == LaunchOf(th[n].arg)
       IN /\ launch' = [launch EXCEPT ![k].st = "boxed", ![k].owner = n]
          /\ cur' = [cur EXCEPT ![n] = launch[k].ctx]
          /\ th' = [th EXCEPT ![n].st = "in_fn",
                              ![n].guard = cur[n],
                              ![n].fn = launch[k].real_fn,
                              ![n].farg = launch[k].real_arg]
    /\ UNCHANGED <<symPresent, aborted, once, REAL_CREATE, lookups, ncalls,
                   call, mem>>

\* fast path: the platform starts the caller's own routine on the new thread
start_routine_enter(n) ==
    /\ ~aborted
    /\ th[n].st = "start"
    /\ th[n].entry \in Fns
    /\ th' = [th EXCEPT ![n].st = "in_fn",
                        ![n].fn = th[n].entry,
                        ![n].farg = th[n].arg.v]
    /\ UNCHANGED <<symPresent, aborted, once, REAL_CREATE, lookups, cur, ncalls,
                   call, launch, mem>>

\* the scope end of trampoline: _guard is dropped (the previous context is
\* current again), then the Box (the Launch is freed)
DropGuard(n) == [cur EXCEPT ![n] = th[n].guard]
DropLaunch(n) ==
    [launch EXCEPT ![LaunchOf(th[n].arg)].st = "freed",
                   ![LaunchOf(th[n].arg)].owner = 0,
                   ![LaunchOf(th[n].arg)].frees = @ + 1,
                   ![LaunchOf(th[n].arg)].freedBy = n]

\* faulty variant: the value of the start routine is thrown away and the
\* trampoline returns null
trampoline_return_null(n) ==
    /\ ~aborted
    /\ th[n].st = "in_fn"
    /\ th[n].pc = "none"
    /\ th[n].entry = "trampoline"
    /\ cur' = DropGuard(n)
    /\ launch' = DropLaunch(n)
    /\ th' = [th EXCEPT ![n].st = "done",
                        ![n].guard = "noguard",
                        ![n].result = 0]
    /\ UNCHANGED <<symPresent, aborted, once, REAL_CREATE, lookups, ncalls,
                   call, mem>>

\* the start routine returns to trampoline, which returns its value
trampoline_return(n) ==
    /\ ~aborted
    /\ th[n].st = "in_fn"
    /\ th[n].pc = "none"
    /\ th[n].entry = "trampoline"
    /\ cur' = DropGuard(n)
    /\ launch' = DropLaunch(n)
    /\ th' = [th EXCEPT ![n].st = "done",
                        ![n].guard = "noguard",
                        ![n].result = Apply(th[n].fn, th[n].farg)]
    /\ UNCHANGED <<symPresent, aborted, once, REAL_CREATE, lookups, ncalls,
                   call, mem>>

\* fast path: the start routine returns to the platform
start_routine_return(n) ==
    /\ ~aborted
    /\ th[n].st = "in_fn"
    /\ th[n].pc = "none"
    /\ th[n].entry \in Fns
    /\ th' = [th EXCEPT ![n].st = "done",
                        ![n].result = Apply(th[n].fn, th[n].farg)]
    /\ UNCHANGED <<symPresent, aborted, once, REAL_CREATE, lookups, cur, ncalls,
                   call, launch, mem>>

\* The start routine does not return: it panics, or it ends its thread
\* (pthread_exit, cancellation). real_fn is an extern "C" fn, so a panic in
\* it aborts the process. Leaving trampoline's frame by a thread exit is
\* outside what the language defines for a frame that holds destructors; a
\* build can abort the process, unwind the frame and run the destructors, or
\* abandon the frame without running them (a platform whose pthread_exit
\* does not unwind).
Abnormal == {"abort", "unwind", "abandon"}

trampoline_abnormal(n, how) ==
    /\ ~aborted
    /\ th[n].st = "in_fn"
    /\ th[n].pc = "none"
    /\ th[n].entry = "trampoline"
    /\ \/ /\ how = "abort"
          /\ aborted' = TRUE
          /\ UNCHANGED <<cur, launch, th>>
       \/ /\ how = "unwind"
          /\ cur' = DropGuard(n)
          /\ launch' = DropLaunch(n)
          /\ th' = [th EXCEPT ![n].st = "exited", ![n].guard = "noguard"]
          /\ UNCHANGED aborted
       \/ /\ how = "abandon"
          /\ th' = [th EXCEPT ![n].st = "exited"]
          /\ UNCHANGED <<aborted, cur, launch>>
    /\ UNCHANGED <<symPresent, once, REAL_CREATE, lookups, ncalls, call, mem>>

\* fast path: the same, with no frame of this crate on the thread's stack
start_routine_abnormal(n, how) ==
    /\ ~aborted
    /\ th[n].st = "in_fn"
    /\ th[n].pc = "none"
    /\ th[n].entry \in Fns
    /\ \/ /\ how = "abort"
          /\ aborted' = TRUE
          /\ UNCHANGED th
       \/ /\ how # "abort"
          /\ th' = [th EXCEPT ![n].st = "exited"]
          /\ UNCHANGED aborted
    /\ UNCHANGED <<symPresent, once, REAL_CREATE, lookups, cur, ncalls, call,
                   launch, mem>>

(* ================================ QuasiArc ============================= *)

\* clones made of one QuasiArc in one run
MaxClones == 2
\* width of usize in the model: strong counts modulo 2^UsizeBits
UsizeBits == 3

UsizeMod == 2^UsizeBits
\* handle 0 is the one QuasiArc::new returned, the others come from clone
Handles == 0..MaxClones

VARIABLES
    qh,        \* qh[h]: "unused", "live" or "gone" (dropped or consumed)
    qalloc,    \* the Inner allocation: "live" or "freed"
    qstrong,   \* Inner.strong
    qread,     \* Inner.read
    qdrops,    \* how many times the drop of Inner.data ran
    qfrees,    \* how many times the allocation was given back
    quaf,      \* some operation touched the allocation after it was freed
    qres,      \* result of the last try_cancel/cancel: "none", "ok", "err", "panic"
    qseen      \* what the last deref found: "none", "data", "freed"

QAVars == <<qh, qalloc, qstrong, qread, qdrops, qfrees, quaf, qres, qseen>>

\* QuasiArc::new: the allocation with strong = 0 and read = false, one handle
QAInit ==
    /\ qh = [h \in Handles |-> IF h = 0 THEN "live" ELSE "unused"]
    /\ qalloc = "live"
    /\ qstrong = 0
    /\ qread = FALSE
    /\ qdrops = 0
    /\ qfrees = 0
    /\ quaf = FALSE
    /\ qres = "none"
    /\ qseen = "none"

\* What a load from the allocation gives. A live allocation gives the field.
\* A freed one gives anything (the access is undefined): the old content, or
\* what the allocator or a later owner of the memory wrote there.
LoadStrong == IF qalloc = "live" THEN {qstrong} ELSE {qstrong, 0, 1}
LoadRead == IF qalloc = "live" THEN {qread} ELSE BOOLEAN

\* drop(Box::from_raw(ptr)): drops Inner.data and gives the allocation back
\* (a second time if it was given back already); the counters stop at "twice
\* or more"
Capped(n) == IF n > 2 THEN 2 ELSE n
BoxDrop ==
    /\ qalloc' = "freed"
    /\ qdrops' = Capped(qdrops + 1)
    /\ qfrees' = Capped(qfrees + 1)

\* faulty variant: the Box is dropped whenever no clone is left after the
\* decrement (old value at most 1), cloned or not
DropHandle_eager(old, rd) ==
    /\ qstrong' = (old - 1) % UsizeMod
    /\ IF old <= 1
       THEN BoxDrop
       ELSE UNCHANGED <<qalloc, qdrops, qfrees>>

\* <QuasiArc as Drop>::drop: strong.fetch_sub(1) (wrapping), and the Box is
\* dropped if the old value was 1 and read is set
DropHandle(old, rd) ==
    /\ qstrong' = (old - 1) % UsizeMod
    /\ IF old = 1 /\ rd
       THEN BoxDrop
       ELSE UNCHANGED <<qalloc, qdrops, qfrees>>

\* <QuasiArc as Clone>::clone: read.store(true), strong.fetch_add(1)
qa_clone(h, c) ==
    /\ qh[h] = "live"
    /\ qh[c] = "unused"
    /\ \A d \in Handles : (d # 0 /\ d < c) => qh[d] # "unused"
    /\ qh' = [qh EXCEPT ![c] = "live"]
    /\ qread' = TRUE
    /\ \E old \in LoadStrong : qstrong' = (old + 1) % UsizeMod
    /\ quaf' = (quaf \/ qalloc = "freed")
    /\ UNCHANGED <<qalloc, qdrops, qfrees, qres, qseen>>

\* <QuasiArc as Deref>::deref
qa_deref(h) ==
    /\ qh[h] = "live"
    /\ qseen' = IF qalloc = "live" THEN "data" ELSE "freed"
    /\ qseen' # qseen
    /\ quaf' = (quaf \/ qalloc = "freed")
    /\ UNCHANGED <<qh, qalloc, qstrong, qread, qdrops, qfrees, qres>>

\* a handle goes out of scope or is passed to drop()
qa_drop(h) ==
    /\ qh[h] = "live"
    /\ qh' = [qh EXCEPT ![h] = "gone"]
    /\ \E old \in LoadStrong, rd \in LoadRead : DropHandle(old, rd)
    /\ quaf' = (quaf \/ qalloc = "freed")
    /\ UNCHANGED <<qread, qres, qseen>>

\* QuasiArc::try_cancel(self), with the drop of self at its end: the Box is
\* dropped if read is clear and strong is 0; then self goes out of scope and
\* <QuasiArc as Drop>::drop runs on it, in the Ok case on the allocation
\* that was just freed.
TryCancel(h, res) ==
    /\ qh[h] = "live"
    /\ qh' = [qh EXCEPT ![h] = "gone"]
    /\ \E s \in LoadStrong, r \in LoadRead :
         IF ~r /\ s = 0
         THEN /\ res = "ok"
              /\ qalloc' = "freed"
              /\ \E old \in {s, 0, 1}, rd \in BOOLEAN :
                    LET n == IF old = 1 /\ rd THEN 2 ELSE 1
                    IN /\ qstrong' = (old - 1) % UsizeMod
                       /\ qdrops' = Capped(qdrops + n)
                       /\ qfrees' = Capped(qfrees + n)
              /\ quaf' = TRUE
         ELSE /\ res = "err"
              /\ DropHandle(s, r)
              /\ quaf' = (quaf \/ qalloc = "freed")
    /\ UNCHANGED <<qread, qseen>>

qa_try_cancel(h) ==
    \E res \in {"ok", "err"} : TryCancel(h, res) /\ qres' = res

\* QuasiArc::cancel(self): try_cancel, and a panic on Err
qa_cancel(h) ==
    \E res \in {"ok", "err"} :
        TryCancel(h, res) /\ qres' = IF res = "err" THEN "panic" ELSE "ok"

(* ---------------------------- specification --------------------------- *)

\* the shim at rest, for the runs of QuasiArc alone
ShimIdle ==
    /\ symPresent = TRUE
    /\ aborted = FALSE
    /\ once = "incomplete"
    /\ REAL_CREATE = "unset"
    /\ lookups = 0
    /\ cur = [t \in Threads |-> "none"]
    /\ th = [t \in Threads |->
               IF t \in Roots THEN [NoThread EXCEPT !.st = "root"] ELSE NoThread]
    /\ ncalls = 0
    /\ call = [k \in CallIds |-> NoCall]
    /\ launch = [k \in CallIds |-> NoLaunch]
    /\ mem = [s \in TidSlots |-> 0]

\* what a step of the shim leaves alone
Rest == <<QAVars, binding>>

\* the steps of real_pthread_create, the lookup at first use
ResolveNext ==
    \/ \E t \in Threads : get_or_init(t) /\ UNCHANGED Rest
    \/ \E t \in Threads : closure(t) /\ UNCHANGED Rest
    \/ \E t \in Threads : abort_on_unwind(t) /\ UNCHANGED Rest

\* the steps of pthread_create and of the threads it creates
CallNext ==
    \/ \E t \in Roots, c \in Contexts : set_context(t, c) /\ UNCHANGED Rest
    \/ \E t \in Threads, i \in CallInputs :
          /\ pthread_create_enter(t, i.start_routine, i.arg, i.tid, i.attr)
          /\ UNCHANGED Rest
    \/ \E t \in Threads, rc \in RetCodes : invoke(t, rc) /\ UNCHANGED Rest
    \/ \E n \in Threads : trampoline_enter(n) /\ UNCHANGED Rest
    \/ \E n \in Threads : start_routine_enter(n) /\ UNCHANGED Rest
    \/ \E n \in Threads : trampoline_return(n) /\ UNCHANGED Rest
    \/ \E n \in Threads : start_routine_return(n) /\ UNCHANGED Rest
    \/ \E n \in Threads, how \in Abnormal :
          trampoline_abnormal(n, how) /\ UNCHANGED Rest
    \/ \E n \in Threads, how \in Abnormal :
          start_routine_abnormal(n, how) /\ UNCHANGED Rest

ShimNext == CallNext \/ ResolveNext

\* the same entry point in a build of either binding
BindNext ==
    \/ CallNext
    \/ binding = "dlsym" /\ ResolveNext
    \/ /\ binding = "wrap"
       /\ \E t \in Threads :
             wrap_real_pthread_create(t) /\ UNCHANGED Rest

NextQA ==
    \/ \E h \in Handles, c \in Handles : qa_clone(h, c) /\ UNCHANGED <<ShimVars, binding>>
    \/ \E h \in Handles : qa_deref(h) /\ UNCHANGED <<ShimVars, binding>>
    \/ \E h \in Handles : qa_drop(h) /\ UNCHANGED <<ShimVars, binding>>
    \/ \E h \in Handles : qa_try_cancel(h) /\ UNCHANGED <<ShimVars, binding>>
    \/ \E h \in Handles : qa_cancel(h) /\ UNCHANGED <<ShimVars, binding>>

vars == <<ShimVars, QAVars, binding>>
Init == ShimInit /\ QAInit /\ binding = "dlsym"
Next == ShimNext
Spec == Init /\ [][Next]_vars

\* a build of either binding; the link-time one has no lookup that can fail
InitBind ==
    /\ ShimInit
    /\ QAInit
    /\ binding \in Bindings
    /\ binding = "wrap" => symPresent
SpecBind == InitBind /\ [][BindNext]_vars

\* The platform schedules every thread it has created: a new thread that is
\* ready to run its entry function does run it.
Fairness ==
    \A n \in Threads \ Roots :
        /\ WF_vars(trampoline_enter(n) /\ UNCHANGED Rest)
        /\ WF_vars(start_routine_enter(n) /\ UNCHANGED Rest)
SpecFair == Spec /\ Fairness

InitQA == ShimIdle /\ QAInit /\ binding = "dlsym"
SpecQA == InitQA /\ [][NextQA]_vars

(* ================================ claims =============================== *)

\* calls that have been made, and those that have returned
Made == {k \in CallIds : call[k].by # 0}
Returned == {k \in CallIds : call[k].ret # -1}
\* calls made under an active span whose thread was created
Propagating == {k \in Returned : call[k].cx \in ActiveSpans /\ call[k].ret = 0}
\* the thread of call k is inside the caller's start routine
InRoutine(k) == th[call[k].child].st = "in_fn"

\* C1: whenever a thread created by a call made under an active span is
\* inside the caller's start routine, its current context is the context
\* its creator had at the moment of the call.
C1_ChildRunsInCreatorContext ==
    \A k \in Propagating : InRoutine(k) => cur[call[k].child] = call[k].cx

\* C1 witness: a child runs its routine in the creator's context after the
\* creator went on to another context.
C1_Witness ==
    \E k \in Propagating :
        /\ InRoutine(k)
        /\ th[call[k].child].entry = "trampoline"
        /\ cur[call[k].child] = call[k].cx
        /\ call[k].by \in Roots
        /\ cur[call[k].by] # call[k].cx

\* C2: a call made with no active span builds no Launch and passes the
\* caller's own start routine and argument to the resolved function; a Launch
\* exists only for a call that saw an active span.
C2_FastPathBuildsNoLaunch ==
    /\ \A k \in Made :
          call[k].cx \notin ActiveSpans =>
             /\ launch[k].st = "none"
             /\ \A i \in 1..Len(call[k].ucalls) :
                   /\ call[k].ucalls[i].entry = call[k].start_routine
                   /\ call[k].ucalls[i].arg = UserArg(call[k].arg)
    /\ \A k \in CallIds : launch[k].st # "none" => call[k].cx \in ActiveSpans

\* C2 witness: a call under a context that carries no span has created its
\* thread directly, while another call has built a Launch.
C2_Witness ==
    \E k \in Returned, j \in Made :
        /\ call[k].cx = "baggage"
        /\ call[k].ret = 0
        /\ th[call[k].child].entry = call[k].start_routine
        /\ launch[k].st = "none"
        /\ launch[j].st # "none"

\* C3 as stated: the lookup runs at most once in the process.
C3_LookupRunsOnce == lookups <= 1

\* C3 as amended: a lookup that finds the function runs exactly once (where
\* the symbol exists the lookup runs at most once, and once REAL_CREATE is
\* written it has run exactly once and does not run again), every caller that
\* got a function got the one in REAL_CREATE, and REAL_CREATE never changes
\* after it is written.
C3_ResolvedOnce ==
    /\ [](/\ symPresent => lookups <= 1
          /\ REAL_CREATE # "unset" => lookups = 1
          /\ \A k \in CallIds :
                call[k].got # "unset" => call[k].got = REAL_CREATE)
    /\ [][/\ REAL_CREATE # "unset" => REAL_CREATE' = REAL_CREATE
          /\ REAL_CREATE # "unset" => lookups' = lookups]_vars

\* C3 witness: two threads were inside real_pthread_create at the same time
\* on first use, one lookup ran, and both have the same function.
C3_Witness ==
    /\ lookups = 1
    /\ \E t, u \in Roots :
          /\ t # u
          /\ th[t].pc = "invoke"
          /\ th[u].pc = "invoke"
          /\ call[th[t].k].got = REAL_CREATE
          /\ call[th[u].k].got = REAL_CREATE
          /\ REAL_CREATE = "libc_pthread_create"

\* C4: of two calls made under different active spans, the thread of each,
\* while inside its start routine, has the context of its own call and not
\* the context of the other call.
C4_NoCrossTalk ==
    \A k, j \in Propagating :
        (k # j /\ call[k].cx # call[j].cx /\ InRoutine(k)) =>
            /\ cur[call[k].child] = call[k].cx
            /\ cur[call[k].child] # call[j].cx

\* C4 witness: two creators with different spans have each a child inside
\* its routine, each child in its own creator's context.
C4_Witness ==
    \E k, j \in Propagating :
        /\ call[k].by # call[j].by
        /\ call[k].cx # call[j].cx
        /\ InRoutine(k)
        /\ InRoutine(j)
        /\ cur[call[k].child] = call[k].cx
        /\ cur[call[j].child] = call[j].cx

\* C5: a call on the slow path whose thread creation failed has released
\* its Launch when it returns.
C5_FailedCreateReleasesLaunch ==
    \A k \in Returned :
        (call[k].path = "slow" /\ call[k].ret # 0) => launch[k].st = "freed"

\* C6: a call that has returned made exactly one call of the resolved
\* function, with the caller's tid slot and attr, and returned that call's
\* code; a call that has not returned has made none.
C6_OneCallCodeForwarded ==
    \A k \in Made :
        IF k \in Returned
        THEN /\ Len(call[k].ucalls) = 1
             /\ call[k].ucalls[1].fn = "libc_pthread_create"
             /\ call[k].ucalls[1].rc = call[k].ret
             /\ call[k].ucalls[1].tid = call[k].tid
             /\ call[k].ucalls[1].attr = call[k].attr
        ELSE call[k].ucalls = <<>>

\* C6 witness: a failure on the slow path and a success on the fast path,
\* both forwarded, the calls made with different attr and tid.
C6_Witness ==
    \E k, j \in Returned :
        /\ call[k].path = "slow"
        /\ call[k].ret = 11
        /\ call[k].attr = "attr"
        /\ call[j].path = "fast"
        /\ call[j].ret = 0
        /\ call[j].attr = "null"
        /\ mem[call[j].tid] = call[j].child

\* the thread of call k has left its start routine, by return or by exit
Finished(k) == th[call[k].child].st \in {"done", "exited"}

\* C7: the Launch of a created thread has one owner at every moment, the
\* creator until the handoff and the new thread after it, is not freed while
\* the start routine runs, and once the thread has left the start routine it
\* has been freed exactly once, by that thread.
C7_LaunchFreedOnceByChild ==
    \A k \in Propagating :
        /\ launch[k].frees <= 1
        /\ ~Finished(k) =>
              /\ launch[k].st \in {"raw", "boxed"}
              /\ launch[k].owner = call[k].child
        /\ Finished(k) =>
              /\ launch[k].st = "freed"
              /\ launch[k].frees = 1
              /\ launch[k].freedBy = call[k].child

\* C8: once the start routine called by trampoline has ended, by return or
\* otherwise, the thread's current context is the one it had before
\* trampoline attached the captured one (a new thread's default context).
C8_ContextRestoredAfterRoutine ==
    \A n \in Threads :
        (th[n].entry = "trampoline" /\ th[n].st \in {"done", "exited"}) =>
            cur[n] = "none"

\* C9: where the lookup finds nothing, REAL_CREATE stays unset, no caller
\* gets a function, no underlying call is made and no call returns; every
\* thread that ran the lookup is panicking or the process has aborted.
C9_LookupFailureIsFatal ==
    ~symPresent =>
        /\ REAL_CREATE = "unset"
        /\ \A k \in CallIds :
              /\ call[k].got = "unset"
              /\ call[k].ucalls = <<>>
              /\ call[k].ret = -1
        /\ \A t \in Threads : th[t].pc # "invoke"
        /\ lookups > 0 => (aborted \/ \E t \in Threads : th[t].pc = "panic")

\* C9 witness: a lookup found nothing on a slow-path call and the process
\* aborted.
C9_Witness ==
    /\ ~symPresent
    /\ aborted
    /\ lookups > 0
    /\ \E t \in Threads : th[t].pc = "panic" /\ call[th[t].k].path = "slow"

\* handles made by clone that are alive
LiveClones == {h \in Handles : h # 0 /\ qh[h] = "live"}
EverCloned == \E h \in Handles : h # 0 /\ qh[h] # "unused"

\* C10: with handles only cloned and dropped, the inner data is not dropped
\* while a clone is alive, and after the last clone is gone it has been
\* dropped exactly once.
C10_InnerDroppedWithLastClone ==
    qres = "none" =>
        /\ LiveClones # {} => qdrops = 0
        /\ (EverCloned /\ LiveClones = {}) => qdrops = 1

\* C11: try_cancel gives Ok, with the inner data dropped exactly once, only
\* on a QuasiArc that was never cloned; on one that was cloned before (its
\* clones alive or not) the result is Err, and cancel panics in those cases.
C11_CancelOkIffNeverCloned ==
    /\ qres = "ok" => (~EverCloned /\ qdrops = 1)
    /\ (qres # "none" /\ qh[0] = "gone" /\ EverCloned) => qres \in {"err", "panic"}

\* C12: as long as no clone was made and nothing was cancelled, the inner
\* data is not dropped and the allocation stays, also after the handle
\* itself is dropped.
C12_NoCloneNoDrop ==
    (~EverCloned /\ qres = "none") => (qdrops = 0 /\ qalloc = "live")

\* C12 witness: the only handle was dropped, never cloned, and the inner
\* data is still there.
C12_Witness ==
    /\ qh[0] = "gone"
    /\ ~EverCloned
    /\ qres = "none"
    /\ qdrops = 0
    /\ qalloc = "live"

\* the threads on which the start routine of call k was invoked, and the
\* threads on which the trampoline ran for the Launch of call k
Invoked(k) == {n \in Threads : th[n].born = k /\ th[n].fn # "none"}
TrampolineRuns(k) ==
    {n \in Threads : /\ th[n].entry = "trampoline"
                     /\ th[n].st \notin {"unborn", "start"}
                     /\ LaunchOf(th[n].arg) = k}
\* no start routine and no trampoline has run for call k
NeverRun(k) ==
    /\ Invoked(k) = {}
    /\ TrampolineRuns(k) = {}
    /\ \A n \in Threads : th[n].born # k
\* at most one invocation for call k, on the thread the call created, of the
\* caller's routine with the caller's argument
OnceOnChild(k) ==
    /\ Invoked(k) \subseteq {call[k].child}
    /\ TrampolineRuns(k) \subseteq {call[k].child}
    /\ \A n \in Invoked(k) : /\ th[n].fn = call[k].start_routine
                             /\ th[n].farg = call[k].arg

\* C13: for every intercepted call the caller's start routine is invoked at
\* most once, only on the thread the call created and with the caller's
\* argument, and not at all while the call has not created a thread or when
\* creation failed; the trampoline runs at most once for a Launch; and when
\* creation succeeded the routine is eventually invoked on the new thread,
\* as long as the process is not aborted before the thread gets to run.
C13_RoutineInvokedOnce ==
    /\ [](\A k \in CallIds :
            IF k \in Returned /\ call[k].ret = 0
            THEN OnceOnChild(k)
            ELSE NeverRun(k))
    /\ \A k \in CallIds :
          (call[k].ret = 0) ~> (aborted \/ Invoked(k) = {call[k].child})

\* C13 witness: one call has failed and nothing ran for it, another has
\* created a thread on which the trampoline has invoked the routine.
C13_Witness ==
    \E k \in Returned, j \in Propagating :
        /\ call[k].ret # 0
        /\ call[k].path = "slow"
        /\ NeverRun(k)
        /\ Invoked(j) = {call[j].child}
        /\ TrampolineRuns(j) = {call[j].child}
        /\ th[call[j].child].farg = call[j].arg

\* C14: a Launch holds the start routine and the argument of its call from
\* packaging on; the trampoline calls that routine with that argument and
\* the thread's result is the value the routine returned.
C14_TrampolineReturnsRoutineValue ==
    /\ \A k \in Made :
          launch[k].st # "none" =>
             /\ launch[k].real_fn = call[k].start_routine
             /\ launch[k].real_arg = call[k].arg
    /\ \A k \in Propagating :
          /\ th[call[k].child].st \in {"in_fn", "done"} =>
                /\ th[call[k].child].fn = call[k].start_routine
                /\ th[call[k].child].farg = call[k].arg
          /\ th[call[k].child].st = "done" =>
                th[call[k].child].result = Apply(call[k].start_routine, call[k].arg)

\* C14 witness: a thread started through the trampoline has finished with
\* the value of g(2).
C14_Witness ==
    \E k \in Propagating :
        /\ th[call[k].child].entry = "trampoline"
        /\ th[call[k].child].st = "done"
        /\ call[k].start_routine = "g"
        /\ th[call[k].child].result = Apply("g", call[k].arg)
        /\ launch[k].st = "freed"

\* C15: the context in a Launch is the one captured at the call and stays
\* so whatever the creator attaches afterwards; a child whose creator has
\* gone on to another context still runs its routine in the captured one.
C15_ChildSeesSnapshot ==
    /\ \A k \in Made :
          call[k].path = "slow" => launch[k].ctx = call[k].cx
    /\ \A k \in Propagating :
          (InRoutine(k) /\ cur[call[k].by] # call[k].cx) =>
              cur[call[k].child] = launch[k].ctx

\* C15 witness: the creator has dropped its context (none is current on it)
\* and the child runs its routine in the span captured at the call.
C15_Witness ==
    \E k \in Propagating :
        /\ InRoutine(k)
        /\ call[k].by \in Roots
        /\ cur[call[k].by] = "none"
        /\ launch[k].ctx \in ActiveSpans
        /\ cur[call[k].child] = launch[k].ctx

\* C18: a call takes the slow path exactly when the context captured at the
\* call has an active span; a context without one goes the fast path and
\* the new thread never has it current.
C18_SlowPathIffActiveSpan ==
    /\ \A k \in Made :
          (call[k].path = "slow") <=> (call[k].cx \in ActiveSpans)
    /\ \A k \in Returned :
          (call[k].cx \notin ActiveSpans /\ call[k].ret = 0) =>
              /\ th[call[k].child].entry # "trampoline"
              /\ cur[call[k].child] = "none"

\* C18 witness: a thread created under a context that carries no span is
\* inside its routine with no context current, its creator still in that
\* context.
C18_Witness ==
    \E k \in Returned :
        /\ call[k].cx = "baggage"
        /\ call[k].path = "fast"
        /\ call[k].ret = 0
        /\ InRoutine(k)
        /\ cur[call[k].by] = "baggage"
        /\ cur[call[k].child] = "none"

C17_StrongCountsLiveClones ==
    qalloc = "live" =>
        /\ qstrong = Cardinality(LiveClones)
        /\ qread = EverCloned

\* C19: a try_cancel of the original that gave Err, with every clone still
\* alive, has left the inner data in place for the clones.
C19_FailedCancelKeepsInner ==
    ( /\ qres = "err"
      /\ qh[0] = "gone"
      /\ LiveClones # {}
      /\ \A h \in Handles \ {0} : qh[h] # "gone" )
    => (qalloc = "live" /\ qdrops = 0)

\* C20: the inner allocation is freed at most once and no operation reads
\* or writes it after it was freed.
C20_FreedOnceNeverTouchedAfter ==
    /\ qfrees <= 1
    /\ ~quaf

====
